---- MODULE Spec2Model ----
(***************************************************************************)
(* Model of the Dar.ai PDF service: the request layer (app/api/routes.py), *)
(* the narrative generator (app/services/llm_service.py) and the document  *)
(* formatter (app/services/pdf_service.py).                                *)
(*                                                                         *)
(* Text is a sequence of symbols.  A symbol is a one-character string for  *)
(* every character the code inspects ("#", "*", "-", ".", ",", " ", "\n",  *)
(* the digits) and otherwise a run of ordinary characters that holds none  *)
(* of these at its ends ("Comparison Summary").                            *)
(***************************************************************************)
EXTENDS Integers, Sequences, FiniteSets, TLC

\* ------------------------------------------------------------------ bounds

\* Longest comma-separated id list a /recommend request carries.
MaxSegs == 4

\* Longest single line handed to the formatter, over the full line alphabet.
MaxLineLen == 5

\* Longest line of "*" and letters handed to the formatter.
MaxStarLen == 8

\* Most lines of a multi-line text handed to the formatter.
MaxLines == 3

\* Longest content text of a numbered / dash line pair.
MaxContentLen == 5

\* Requests the server has in flight at once.
NumWorkers == 2

\* Most lines of a narrative text whose assembly is followed step by step.
MaxNarrativeLines == 3

\* ------------------------------------------------------- text primitives

Digit == <<"0", "1", "2", "3", "4", "5", "6", "7", "8", "9">>

IsDigit(c) == \E i \in 1..10 : Digit[i] = c

DigitValue(c) == (CHOOSE i \in 1..10 : Digit[i] = c) - 1

\* str.isspace() on the characters of the model's alphabet.
IsSpace(c) == c \in {" ", "\n", "\t"}

RECURSIVE LStrip(_)
LStrip(s) == IF s # <<>> /\ IsSpace(Head(s)) THEN LStrip(Tail(s)) ELSE s

RECURSIVE RStrip(_)
RStrip(s) ==
    IF s # <<>> /\ IsSpace(s[Len(s)]) THEN RStrip(SubSeq(s, 1, Len(s) - 1)) ELSE s

\* str.strip()
Strip(s) == RStrip(LStrip(s))

\* Index of the first occurrence of character c in s, 0 when there is none.
RECURSIVE Find(_, _, _)
Find(s, c, i) ==
    IF i > Len(s) THEN 0 ELSE IF s[i] = c THEN i ELSE Find(s, c, i + 1)

\* str.split(sep) for a one-character separator: always at least one piece.
RECURSIVE Split(_, _)
Split(s, sep) ==
    LET i == Find(s, sep, 1)
    IN  IF i = 0 THEN <<s>>
        ELSE <<SubSeq(s, 1, i - 1)>> \o Split(SubSeq(s, i + 1, Len(s)), sep)

\* sep.join(parts)
RECURSIVE Join(_, _)
Join(parts, sep) ==
    IF parts = <<>> THEN <<>>
    ELSE IF Len(parts) = 1 THEN parts[1]
    ELSE parts[1] \o sep \o Join(Tail(parts), sep)

RECURSIVE DigitsValue(_, _)
DigitsValue(s, acc) ==
    IF s = <<>> THEN acc ELSE DigitsValue(Tail(s), acc * 10 + DigitValue(Head(s)))

AllDigits(s) == s # <<>> /\ \A i \in 1..Len(s) : IsDigit(s[i])

\* int(text): surrounding whitespace is ignored, then an optional sign and
\* one or more decimal digits; anything else raises ValueError.
PyInt(text) ==
    LET t    == Strip(text)
        sgn  == t # <<>> /\ Head(t) \in {"+", "-"}
        body == IF sgn THEN Tail(t) ELSE t
    IN  IF AllDigits(body)
        THEN [ok |-> TRUE,
              value |-> IF sgn /\ Head(t) = "-"
                        THEN 0 - DigitsValue(body, 0) ELSE DigitsValue(body, 0)]
        ELSE [ok |-> FALSE, value |-> 0]

RECURSIVE Dec(_)
\* str(n) / f"{n}" of a non-negative integer.
Dec(n) == IF n < 10 THEN <<Digit[n + 1]>> ELSE Dec(n \div 10) \o <<Digit[(n % 10) + 1]>>

ThreeDigits(n) ==
    <<Digit[(n \div 100) + 1], Digit[((n \div 10) % 10) + 1], Digit[(n % 10) + 1]>>

RECURSIVE Grouped(_)
\* f"{n:,.0f}" of a non-negative whole number: thousands grouped by commas.
Grouped(n) ==
    IF n < 1000 THEN Dec(n)
    ELSE Grouped(n \div 1000) \o <<",">> \o ThreeDigits(n % 1000)

\* f"{p / a:,.0f}" for whole p >= 0, a > 0: the quotient rounded to the
\* nearest whole number, ties to the even one.
RoundDiv(p, a) ==
    LET q == p \div a
        r == p % a
    IN  IF 2 * r > a THEN q + 1
        ELSE IF 2 * r < a THEN q
        ELSE IF q % 2 = 0 THEN q ELSE q + 1

\* ------------------------------------------------------------ the records

\* The Property records of data/properties.json (the fields the service reads).
PropertyRecords ==
    [i \in {1, 2, 3} |->
        CASE i = 1 -> [id |-> 1, address |-> "12 Rue Didouche", price |-> 1200,
                       area_sqm |-> 50, property_type |-> "apartment",
                       number_of_rooms |-> 3, description |-> "Sunny flat"]
          [] i = 2 -> [id |-> 2, address |-> "4 Chemin des Cretes", price |-> 4500,
                       area_sqm |-> 80, property_type |-> "villa",
                       number_of_rooms |-> 1, description |-> ""]
          [] i = 3 -> [id |-> 3, address |-> "Lot 7 Bab Ezzouar", price |-> 2500,
                       area_sqm |-> 0, property_type |-> "land",
                       number_of_rooms |-> 0, description |-> ""]]

\* The Contact records of data/contacts.json.
ContactRecords ==
    [i \in {1, 2} |->
        CASE i = 1 -> [id |-> 1, name |-> <<"Amina", " ", "Benali">>,
                       preferred_locations |-> <<"Hydra">>,
                       min_budget |-> 1000, max_budget |-> 2000,
                       min_area_sqm |-> 60, max_area_sqm |-> 100,
                       property_types |-> <<"apartment">>, min_rooms |-> 2]
          [] i = 2 -> [id |-> 2, name |-> <<"Karim", " ", "Saadi">>,
                       preferred_locations |-> <<"Oran", "Hydra">>,
                       min_budget |-> 2000, max_budget |-> 5000,
                       min_area_sqm |-> 0, max_area_sqm |-> 60,
                       property_types |-> <<"villa", "land">>, min_rooms |-> 0]]

EmptyStore == [i \in {} |-> 0]

\* ------------------------------------------------- narrative generator

SP == <<" ">>

NL == <<"\n">>

BB == <<"*", "*">>

\* The texts a successful provider call may return in message.content.
LLMTexts ==
    { <<"#", "#", "#", " ", "Overview">> \o NL \o BB \o <<"Value">> \o BB \o NL
        \o <<"1", ".", " ", "Buy", " ">> \o BB \o <<"now">> \o BB \o NL \o NL
        \o <<"-", " ", "Wait">>,
      NL \o SP \o <<"Both are fine.">> \o SP \o NL }

\* What client.chat.completions.create(...) and the read of
\* response.choices[0].message.content can come to: a text, a response
\* whose content is None (content.strip() raises AttributeError), or an
\* exception of the client (connection error, timeout, error status).
ProviderOutcomes ==
    [kind : {"content"}, content : LLMTexts]
        \cup [kind : {"no_content", "error"}, content : {<<>>}]

Abs(x) == IF x < 0 THEN 0 - x ELSE x

NoteLine(what, tail) ==
    <<"*", "Note: AI", " ", what, " ",
      "temporarily unavailable. Please consult with your agent for", " ", tail, "*">>

\* The f-string of llm_service.py lines 71-86, for properties with a
\* non-zero area ("m2" stands for the square-metre unit).
ComparisonFallbackText(property1, property2) ==
    LET price_diff == Abs(property1.price - property2.price)
        area_diff  == Abs(property1.area_sqm - property2.area_sqm)
        Offer(p) ==
            <<"Property", " ", "#">> \o Dec(p.id) \o <<" ", "offers", " ">>
                \o Dec(p.area_sqm) \o <<" ", "m2", " ", "at", " ">>
                \o Grouped(RoundDiv(p.price, p.area_sqm)) \o <<" ", "DZD/m2.">>
    IN  NL \o BB \o <<"Comparison Summary">> \o BB \o NL
        \o NL
        \o <<"Property", " ", "#">> \o Dec(property1.id) \o <<" ", "vs", " ", "Property", " ", "#">>
            \o Dec(property2.id) \o <<":">> \o NL
        \o NL
        \o BB \o <<"Price Difference:">> \o BB \o SP \o Grouped(price_diff) \o <<" ", "DZD">> \o NL
        \o BB \o <<"Area Difference:">> \o BB \o SP \o Dec(area_diff) \o <<" ", "m2">> \o NL
        \o NL
        \o Offer(property1) \o NL
        \o Offer(property2) \o NL
        \o NL
        \o <<"Both properties are located in different areas and offer unique advantages.", " ">> \o NL
        \o <<"Consider your budget, space requirements, and location preferences when making your decision.">> \o NL
        \o NL
        \o NoteLine("summary", "detailed analysis.") \o NL

\* The provider call of a generator raises into its except clause unless
\* the call returns and the content is a text.
ProviderFailed(outcome) == outcome.kind # "content"

\* generate_comparison_summary: [raised, text].  The except clause computes
\* price / area_sqm of both properties: a zero area raises ZeroDivisionError
\* out of the handler.
generate_comparison_summary(property1, property2, outcome) ==
    IF ~ProviderFailed(outcome)
    THEN [raised |-> FALSE, text |-> Strip(outcome.content)]
    ELSE IF property1.area_sqm = 0 \/ property2.area_sqm = 0
    THEN [raised |-> TRUE, text |-> <<>>]
    ELSE [raised |-> FALSE, text |-> Strip(ComparisonFallbackText(property1, property2))]

InList(x, list) == \E i \in 1..Len(list) : list[i] = x

Mark(b) == IF b THEN "check" ELSE "cross"

\* The four *_fit values of llm_service.py lines 183-186.
Fits(prop, contact) ==
    [budget_fit |-> Mark(contact.min_budget <= prop.price /\ prop.price <= contact.max_budget),
     area_fit   |-> Mark(contact.min_area_sqm <= prop.area_sqm /\ prop.area_sqm <= contact.max_area_sqm),
     rooms_fit  |-> Mark(prop.number_of_rooms >= contact.min_rooms),
     type_fit   |-> Mark(InList(prop.property_type, contact.property_types))]

\* The per-property f-string of llm_service.py lines 188-192: the Area
\* position interpolates budget_fit.
PropertyFallbackLines(i, prop, contact) ==
    LET f == Fits(prop, contact)
    IN  NL \o <<"Property", " ">> \o Dec(i) \o <<":", " ", "Budget", " ", f.budget_fit,
                 " ", "|", " ", "Area", " ", f.budget_fit,
                 " ", "|", " ", "Rooms", " ", f.rooms_fit,
                 " ", "|", " ", "Type", " ", f.type_fit>> \o NL
        \o <<"-", " ", "Price:", " ">> \o Grouped(prop.price) \o <<" ", "DZD", " ", "(Budget:", " ">>
            \o Grouped(contact.min_budget) \o <<" ", "-", " ">> \o Grouped(contact.max_budget)
            \o <<" ", "DZD)">> \o NL
        \o <<"-", " ", "Area:", " ">> \o Dec(prop.area_sqm) \o <<" ", "m2", " ", "(Preferred:", " ">>
            \o Dec(contact.min_area_sqm) \o <<" ", "-", " ">> \o Dec(contact.max_area_sqm)
            \o <<" ", "m2)">> \o NL

RECURSIVE AllPropertyFallbackLines(_, _, _)
AllPropertyFallbackLines(i, properties, contact) ==
    IF i > Len(properties) THEN <<>>
    ELSE PropertyFallbackLines(i, properties[i], contact)
            \o AllPropertyFallbackLines(i + 1, properties, contact)

RecommendationFallbackText(properties, contact) ==
    NL \o BB \o <<"Personalized Property Recommendation for", " ">> \o contact.name \o BB \o NL
       \o NL
       \o BB \o <<"Budget Analysis:">> \o BB \o NL
       \o AllPropertyFallbackLines(1, properties, contact)
       \o NL \o NL
       \o NoteLine("analysis", "detailed personalized recommendations.") \o NL

\* generate_personalized_recommendation: [raised, text].
generate_personalized_recommendation(properties, contact, outcome) ==
    IF ~ProviderFailed(outcome)
    THEN [raised |-> FALSE, text |-> Strip(outcome.content)]
    ELSE [raised |-> FALSE, text |-> Strip(RecommendationFallbackText(properties, contact))]

\* --------------------------------------------------- document formatter

\* ReportLab flowables: Paragraph(text, style), Spacer(1, height), Table(data).
Paragraph(text, style) == [kind |-> "Paragraph", text |-> text, style |-> style, data |-> <<>>]

Spacer(height) == [kind |-> "Spacer", text |-> <<>>, style |-> height, data |-> <<>>]

Table(name, data) == [kind |-> "Table", text |-> <<>>, style |-> name, data |-> data]

StartsWith(s, prefix) == Len(s) >= Len(prefix) /\ SubSeq(s, 1, Len(prefix)) = prefix

EndsWith(s, suffix) ==
    Len(s) >= Len(suffix) /\ SubSeq(s, Len(s) - Len(suffix) + 1, Len(s)) = suffix

\* line.lstrip('#')
RECURSIVE LStripHash(_)
LStripHash(s) == IF s # <<>> /\ Head(s) = "#" THEN LStripHash(Tail(s)) ELSE s

\* Index of the first "**" of s at or after position i, 0 when there is none.
RECURSIVE FindBB(_, _)
FindBB(s, i) ==
    IF i + 1 > Len(s) THEN 0
    ELSE IF s[i] = "*" /\ s[i + 1] = "*" THEN i
    ELSE FindBB(s, i + 1)

\* Index of the last "**" of s that starts at or before position i, 0 when
\* there is none.
RECURSIVE FindLastBB(_, _)
FindLastBB(s, i) ==
    IF i < 1 THEN 0
    ELSE IF i + 1 <= Len(s) /\ s[i] = "*" /\ s[i + 1] = "*" THEN i
    ELSE FindLastBB(s, i - 1)

\* The greedy pattern r'\*\*(.*)\*\*': one span from the first "**" to the last.
InlineBold_greedy(s) ==
    LET i == FindBB(s, 1)
        j == FindLastBB(s, Len(s) - 1)
    IN  IF i = 0 \/ j < i + 2 THEN s
        ELSE SubSeq(s, 1, i - 1) \o <<"<b>">> \o SubSeq(s, i + 2, j - 1) \o <<"</b>">>
                \o SubSeq(s, j + 2, Len(s))

\* re.sub(r'\*\*(.*?)\*\*', r'<b>\1</b>', s): leftmost, non-overlapping,
\* shortest spans; a "**" with no later "**" stays as it is.
RECURSIVE InlineBold(_)
InlineBold(s) ==
    LET i == FindBB(s, 1)
        j == IF i = 0 THEN 0 ELSE FindBB(s, i + 2)
    IN  IF i = 0 \/ j = 0 THEN s
        ELSE SubSeq(s, 1, i - 1) \o <<"<b>">> \o SubSeq(s, i + 2, j - 1) \o <<"</b>">>
                \o InlineBold(SubSeq(s, j + 2, Len(s)))

RECURSIVE CountDigits(_, _)
CountDigits(s, i) ==
    IF i <= Len(s) /\ IsDigit(s[i]) THEN 1 + CountDigits(s, i + 1) ELSE 0

RECURSIVE CountSpaces(_, _)
CountSpaces(s, i) ==
    IF i <= Len(s) /\ IsSpace(s[i]) THEN 1 + CountSpaces(s, i + 1) ELSE 0

\* re.sub(r'^\d+\.', '', line) after the same match: the number and the dot
\* are removed, the whitespace after them stays in the text.
NumberedPrefix_dot_only(line) ==
    LET d == CountDigits(line, 1)
        w == CountSpaces(line, d + 2)
    IN  IF d > 0 /\ d + 1 <= Len(line) /\ line[d + 1] = "." /\ w > 0
        THEN d + 1 ELSE 0

\* Length of the match of r'^\d+\.\s+' at the start of line, 0 for no match.
NumberedPrefix(line) ==
    LET d == CountDigits(line, 1)
        w == CountSpaces(line, d + 2)
    IN  IF d > 0 /\ d + 1 <= Len(line) /\ line[d + 1] = "." /\ w > 0
        THEN d + 1 + w ELSE 0

\* len(line) >= 4 in place of len(line) > 4: the line "****" is a bold
\* header with no text.
FormatLine_short_bold(line) ==
    IF StartsWith(line, <<"#", "#", "#">>)
    THEN Paragraph(Strip(LStripHash(line)), "SUBHEADER_STYLE")
    ELSE IF StartsWith(line, BB) /\ EndsWith(line, BB) /\ Len(line) >= 4
    THEN Paragraph(SubSeq(line, 3, Len(line) - 2), "BOLD_STYLE")
    ELSE IF NumberedPrefix(line) > 0
    THEN Paragraph(<<"(bullet)", " ">>
                     \o InlineBold(SubSeq(line, NumberedPrefix(line) + 1, Len(line))),
                   "BULLET_STYLE")
    ELSE IF StartsWith(line, <<"-", " ">>)
    THEN Paragraph(<<"(bullet)", " ">> \o InlineBold(SubSeq(line, 3, Len(line))),
                   "BULLET_STYLE")
    ELSE Paragraph(InlineBold(line), "BODY_STYLE")

\* The body of the loop of format_llm_text_for_pdf for one stripped,
\* non-empty line: the paragraph it appends ("(bullet)" is the bullet glyph).
FormatLine(line) ==
    IF StartsWith(line, <<"#", "#", "#">>)
    THEN Paragraph(Strip(LStripHash(line)), "SUBHEADER_STYLE")
    ELSE IF StartsWith(line, BB) /\ EndsWith(line, BB) /\ Len(line) > 4
    THEN Paragraph(SubSeq(line, 3, Len(line) - 2), "BOLD_STYLE")
    ELSE IF NumberedPrefix(line) > 0
    THEN Paragraph(<<"(bullet)", " ">>
                     \o InlineBold(SubSeq(line, NumberedPrefix(line) + 1, Len(line))),
                   "BULLET_STYLE")
    ELSE IF StartsWith(line, <<"-", " ">>)
    THEN Paragraph(<<"(bullet)", " ">> \o InlineBold(SubSeq(line, 3, Len(line))),
                   "BULLET_STYLE")
    ELSE Paragraph(InlineBold(line), "BODY_STYLE")

\* Without `if not line: continue`: a blank line becomes an empty paragraph.
RECURSIVE FormatLines_blank_paragraph(_)
FormatLines_blank_paragraph(lines) ==
    IF lines = <<>> THEN <<>>
    ELSE <<FormatLine(Strip(Head(lines)))>> \o FormatLines_blank_paragraph(Tail(lines))

\* The loop of format_llm_text_for_pdf (pdf_service.py lines 64-98).
RECURSIVE FormatLines(_)
FormatLines(lines) ==
    IF lines = <<>> THEN <<>>
    ELSE LET line == Strip(Head(lines))
         IN  IF line = <<>> THEN FormatLines(Tail(lines))
             ELSE <<FormatLine(line)>> \o FormatLines(Tail(lines))

format_llm_text_for_pdf(text) == FormatLines(Split(text, "\n"))

\* for para in formatted_paragraphs: story.append(para); story.append(Spacer(1, 0.05 * inch))
RECURSIVE WithSpacers(_)
WithSpacers(paragraphs) ==
    IF paragraphs = <<>> THEN <<>>
    ELSE <<Head(paragraphs), Spacer("0.05 inch")>> \o WithSpacers(Tail(paragraphs))

\* str.title() of the property types of the data.
Title(t) ==
    CASE t = "apartment" -> "Apartment"
      [] t = "villa"     -> "Villa"
      [] t = "office"    -> "Office"
      [] t = "land"      -> "Land"

DescriptionOrDefault(p) ==
    IF p.description = "" THEN "No description available" ELSE p.description

Footer ==
    <<Spacer("0.5 inch"), Paragraph(<<"Generated on:", " ", "(now)", " ", "by Dar.ai">>, "Normal")>>

ComparisonUnavailable ==
    Paragraph(<<"AI analysis temporarily unavailable. Please consult with your agent for detailed comparison insights.">>,
              "BODY_STYLE")

RecommendationUnavailable ==
    Paragraph(<<"AI analysis temporarily unavailable. Please consult with your agent for detailed personalized recommendations.">>,
              "BODY_STYLE")

\* generate_comparison_pdf up to the generator call: title, table, section header.
ComparisonHead(p1, p2) ==
    <<Paragraph(<<"Property Comparison">>, "TITLE_STYLE"),
      Spacer("0.25 inch"),
      Table("comparison",
            << <<<<"Feature">>, <<"Property", " ", "#">> \o Dec(p1.id), <<"Property", " ", "#">> \o Dec(p2.id)>>,
               <<<<"Address">>, <<p1.address>>, <<p2.address>>>>,
               <<<<"Price">>, Grouped(p1.price) \o <<" ", "DZD">>, Grouped(p2.price) \o <<" ", "DZD">>>>,
               <<<<"Area (sqm)">>, Dec(p1.area_sqm) \o <<" ", "m2">>, Dec(p2.area_sqm) \o <<" ", "m2">>>>,
               <<<<"Rooms">>, Dec(p1.number_of_rooms), Dec(p2.number_of_rooms)>>,
               <<<<"Type">>, <<Title(p1.property_type)>>, <<Title(p2.property_type)>>>>,
               <<<<"Description">>, <<DescriptionOrDefault(p1)>>, <<DescriptionOrDefault(p2)>>>> >>),
      Spacer("0.5 inch"),
      Paragraph(<<"AI Analysis & Recommendation">>, "HEADER_STYLE"),
      Spacer("0.1 inch")>>

\* Mutant of NarrativeSection: the except clause appends nothing.
NarrativeSection_no_fallback(generated, unavailable) ==
    IF generated.raised THEN <<>>
    ELSE WithSpacers(format_llm_text_for_pdf(generated.text))

\* The try/except of generate_comparison_pdf and of
\* generate_personalized_recommendation_pdf: the blocks appended to the story
\* for the narrative `generated` = [raised, text].  The paragraphs are all
\* formatted before the first is appended.
NarrativeSection(generated, unavailable) ==
    IF generated.raised THEN <<unavailable>>
    ELSE WithSpacers(format_llm_text_for_pdf(generated.text))

\* Mutant of generate_comparison_pdf: the generator call is not guarded, its
\* exception leaves the function.
generate_comparison_pdf_unguarded(head, p1, p2, outcome) ==
    LET generated == generate_comparison_summary(p1, p2, outcome)
    IN  IF generated.raised THEN [raised |-> TRUE, story |-> <<>>]
        ELSE [raised |-> FALSE,
              story  |-> head \o WithSpacers(format_llm_text_for_pdf(generated.text)) \o Footer]

\* generate_comparison_pdf from the generator call on: [raised, story], the
\* story being what doc.build renders into the returned bytes.
generate_comparison_pdf(head, p1, p2, outcome) ==
    [raised |-> FALSE,
     story  |-> head
                  \o NarrativeSection(generate_comparison_summary(p1, p2, outcome),
                                      ComparisonUnavailable)
                  \o Footer]

\* generate_quote_pdf: no generator call, no footer (lines 257-262 are
\* commented out); "(today)" and "(today + 30 days)" are the two dates.
generate_quote_pdf(prop, contact) ==
    [raised |-> FALSE,
     story  |->
        <<Table("header",
                << <<<<"<b>", "Dar.ai Real Estate", "</b>", "<br/>", "Your Trusted Partner in Real Estate">>,
                     <<"<b>", "QUOTE", "</b>">>>> >>),
          Spacer("0.25 inch"),
          Table("info",
                << <<<<"<b>", "Quote For:", "</b>">>, contact.name>>,
                   <<<<"<b>", "Date:", "</b>">>, <<"(today)">>>>,
                   <<<<"<b>", "Valid Until:", "</b>">>, <<"(today + 30 days)">>>> >>),
          Spacer("0.5 inch"),
          Paragraph(<<"Property Details">>, "HEADER_STYLE"),
          Spacer("0.1 inch"),
          Table("property_details",
                << <<<<"Property Information">>, <<"Details">>>>,
                   <<<<"<b>", "Address:", "</b>">>, <<prop.address>>>>,
                   <<<<"<b>", "Property Type:", "</b>">>, <<Title(prop.property_type)>>>>,
                   <<<<"<b>", "Area:", "</b>">>, Dec(prop.area_sqm) \o <<" ", "m2">>>>,
                   <<<<"<b>", "Rooms:", "</b>">>, Dec(prop.number_of_rooms)>>,
                   <<<<"<b>", "Description:", "</b>">>, <<DescriptionOrDefault(prop)>>>> >>),
          Spacer("0.5 inch"),
          Paragraph(<<"Pricing">>, "HEADER_STYLE"),
          Spacer("0.1 inch"),
          Table("line_items",
                << <<<<"<b>", "Item Description", "</b>">>, <<"<b>", "Price (DZD)", "</b>">>>>,
                   <<<<"Real estate property located at:", " ", prop.address>>, Grouped(prop.price)>>,
                   <<<<>>, <<>>>>,
                   <<<<"<b>", "Total Amount", "</b>">>, <<"<b>">> \o Grouped(prop.price) \o <<"</b>">>>> >>),
          Spacer("1 inch")>>]

\* ", ".join(words)
RECURSIVE JoinWords(_)
JoinWords(words) ==
    IF words = <<>> THEN <<>>
    ELSE IF Len(words) = 1 THEN <<words[1]>>
    ELSE <<words[1], ",", " ">> \o JoinWords(Tail(words))

\* One row of the properties-overview table (pdf_service.py lines 318-338).
OverviewRow(i, prop, contact) ==
    LET budget_match == contact.min_budget <= prop.price /\ prop.price <= contact.max_budget
        area_match   == contact.min_area_sqm <= prop.area_sqm /\ prop.area_sqm <= contact.max_area_sqm
        rooms_match  == prop.number_of_rooms >= contact.min_rooms
        type_match   == InList(prop.property_type, contact.property_types)
    IN  << <<"Property", " ">> \o Dec(i),
           <<prop.address>>,
           Grouped(prop.price) \o <<" ", Mark(budget_match)>>,
           Dec(prop.area_sqm) \o <<" ", Mark(area_match)>>,
           Dec(prop.number_of_rooms) \o <<" ", Mark(rooms_match)>>,
           <<Title(prop.property_type), " ", Mark(type_match)>> >>

\* generate_personalized_recommendation_pdf up to the generator call.
RecommendationHead(properties, contact) ==
    <<Paragraph(<<"Personalized Property Recommendation for", " ">> \o contact.name, "TITLE_STYLE"),
      Spacer("0.25 inch"),
      Paragraph(<<"Client Profile & Preferences">>, "HEADER_STYLE"),
      Spacer("0.1 inch"),
      Table("client",
            << <<<<"Preference">>, <<"Details">>>>,
               <<<<"Budget Range">>,
                 Grouped(contact.min_budget) \o <<" ", "-", " ">> \o Grouped(contact.max_budget) \o <<" ", "DZD">>>>,
               <<<<"Preferred Area">>,
                 Dec(contact.min_area_sqm) \o <<" ", "-", " ">> \o Dec(contact.max_area_sqm) \o <<" ", "m2">>>>,
               <<<<"Minimum Rooms">>, Dec(contact.min_rooms)>>,
               <<<<"Property Types">>, JoinWords(contact.property_types)>>,
               <<<<"Preferred Locations">>, JoinWords(contact.preferred_locations)>> >>),
      Spacer("0.3 inch"),
      Paragraph(<<"Properties Under Consideration">>, "HEADER_STYLE"),
      Spacer("0.1 inch"),
      Table("properties",
            << <<<<"Property">>, <<"Address">>, <<"Price (DZD)">>, <<"Area (m2)">>, <<"Rooms">>, <<"Type">>>> >>
                \o [i \in 1..Len(properties) |-> OverviewRow(i, properties[i], contact)]),
      Spacer("0.1 inch"),
      Paragraph(<<"check", " ", "=", " ", "Matches preference", " ", "|", " ",
                  "cross", " ", "=", " ", "Does not match preference">>, "Normal"),
      Spacer("0.3 inch"),
      Paragraph(<<"AI-Powered Personalized Analysis">>, "HEADER_STYLE"),
      Spacer("0.1 inch")>>

\* generate_personalized_recommendation_pdf from the generator call on.
generate_personalized_recommendation_pdf(head, properties, contact, outcome) ==
    [raised |-> FALSE,
     story  |-> head
                  \o NarrativeSection(generate_personalized_recommendation(properties, contact, outcome),
                                      RecommendationUnavailable)
                  \o Footer]

\* ------------------------------------------------------------- the state

VARIABLES
    PROPERTIES_DB,   \* routes.py: id -> Property
    CONTACTS_DB,     \* routes.py: id -> Contact
    pc,              \* where the request in hand is: "idle", "provider", "done"
    req,             \* the request in hand
    story,           \* the story list of the document being assembled
    provider_calls,  \* client.chat.completions.create calls issued for the request
    outcome,         \* what the provider call of the request came to
    summary,         \* what the narrative generator returned: [raised, text]
    response,        \* the HTTP response of the request
    files,           \* what the two data files were at startup
    parser_input,    \* the text handed to format_llm_text_for_pdf on its own
    paragraphs,      \* what format_llm_text_for_pdf returned for it
    workers          \* the requests in flight when several are served at once

vars ==
    <<PROPERTIES_DB, CONTACTS_DB, pc, req, story, provider_calls, outcome, summary, response,
      files, parser_input, paragraphs, workers>>

\* Segments of a property_ids query string that int() accepts ...
IntTokens ==
    { <<"1">>, <<"2">>, <<" ", "3", " ">>, <<"4">>, <<"-", "1">> }

\* ... and segments it rejects.
NonIntTokens == { <<>>, <<"x">> }

SegTokens == IntTokens \cup NonIntTokens

SegLists == UNION { [1..n -> SegTokens] : n \in 1..MaxSegs }

\* Ids a request may name; 4 is in no store, 3 in the property store only.
PropertyIdInputs == {1, 2, 3, 4}

ContactIdInputs == {1, 2, 3}

NoRequest ==
    [endpoint |-> "none", property_id_1 |-> 0, property_id_2 |-> 0, property_id |-> 0,
     contact_id |-> 0, property_ids |-> <<>>, segs |-> <<>>,
     limit |-> [given |-> FALSE, value |-> 0]]

NoOutcome == [kind |-> "none", content |-> <<>>]

NoSummary == [raised |-> FALSE, text |-> <<>>]

\* raise HTTPException(status_code, detail); ids are the ids the detail
\* interpolates.
HTTPException(status, detail, ids) ==
    [status |-> status, detail |-> detail, ids |-> ids, body |-> <<>>, filename |-> <<>>]

NoResponse == HTTPException(0, "", <<>>)

\* Response(content=pdf_bytes, ...); an exception leaving the handler is
\* answered 500 by the framework.
Response(pdf, filename) ==
    IF pdf.raised THEN HTTPException(500, "Internal Server Error", <<>>)
    ELSE [status |-> 200, detail |-> "", ids |-> <<>>, body |-> pdf.story, filename |-> filename]

\* What a data file can be when the module is imported.
FileStates == {"ok", "missing", "malformed"}

\* No text was handed to the formatter on its own.
NoParserInput == [family |-> "none", text |-> <<>>, content |-> <<>>]

\* No request is in flight beside the one in hand.
NoWorkers == <<>>

\* routes.py lines 14-21. open() of a missing file raises FileNotFoundError,
\* the one exception the except clause names: both stores are then empty,
\* whichever file was missing. json.load of a malformed file raises
\* JSONDecodeError, and Property(**p) / p['id'] of a malformed record raise
\* ValidationError / KeyError: none is caught, the import fails and the
\* process does not start. The properties file is read first.
load_stores(properties_file, contacts_file) ==
    IF properties_file = "malformed"
    THEN [crashed |-> TRUE, properties |-> EmptyStore, contacts |-> EmptyStore]
    ELSE IF properties_file = "missing"
    THEN [crashed |-> FALSE, properties |-> EmptyStore, contacts |-> EmptyStore]
    ELSE IF contacts_file = "malformed"
    THEN [crashed |-> TRUE, properties |-> EmptyStore, contacts |-> EmptyStore]
    ELSE IF contacts_file = "missing"
    THEN [crashed |-> FALSE, properties |-> EmptyStore, contacts |-> EmptyStore]
    ELSE [crashed |-> FALSE, properties |-> PropertyRecords, contacts |-> ContactRecords]

\* The state after startup. The contacts file is opened only after the
\* properties file was read ("unread" otherwise). A process whose import
\* failed serves nothing: its pc is "crashed" and no action is enabled.
Init ==
    /\ \E properties_file, contacts_file \in FileStates :
          /\ files = [properties |-> properties_file,
                      contacts |-> IF properties_file = "ok" THEN contacts_file ELSE "unread"]
          /\ PROPERTIES_DB = load_stores(properties_file, contacts_file).properties
          /\ CONTACTS_DB = load_stores(properties_file, contacts_file).contacts
          /\ pc = IF load_stores(properties_file, contacts_file).crashed THEN "crashed" ELSE "idle"
    /\ req = NoRequest
    /\ story = <<>>
    /\ provider_calls = 0
    /\ outcome = NoOutcome
    /\ summary = NoSummary
    /\ response = NoResponse
    /\ parser_input = NoParserInput
    /\ paragraphs = <<>>
    /\ workers = NoWorkers

\* The worker holds no request.
Free == pc = "idle"

\* ------------------------------------------------------------- /compare

\* Mutant of compare_check: `and` for `or`.  404 only when both properties
\* are absent; with one absent, None reaches generate_comparison_pdf and its
\* AttributeError is answered 500.
compare_check_both_absent(property_id_1, property_id_2) ==
    IF property_id_1 \notin DOMAIN PROPERTIES_DB /\ property_id_2 \notin DOMAIN PROPERTIES_DB
    THEN HTTPException(404, "One or both property IDs not found.", <<>>)
    ELSE IF property_id_1 \notin DOMAIN PROPERTIES_DB \/ property_id_2 \notin DOMAIN PROPERTIES_DB
    THEN HTTPException(500, "Internal Server Error", <<>>)
    ELSE NoResponse

\* routes.py lines 32-36: the 404 of /compare, NoResponse when both are found.
compare_check(property_id_1, property_id_2) ==
    IF property_id_1 \notin DOMAIN PROPERTIES_DB \/ property_id_2 \notin DOMAIN PROPERTIES_DB
    THEN HTTPException(404, "One or both property IDs not found.", <<>>)
    ELSE NoResponse

\* The document is generated ahead of the lookup check: the provider request
\* of a request that ends in 404 has been issued.
compare_properties_generate_first(property_id_1, property_id_2) ==
    /\ Free
    /\ req' = [NoRequest EXCEPT !.endpoint = "compare",
                                !.property_id_1 = property_id_1,
                                !.property_id_2 = property_id_2]
    /\ outcome' = NoOutcome
    /\ summary' = NoSummary
    /\ provider_calls' = 1
    /\ LET err == compare_check(property_id_1, property_id_2)
       IN  IF err.status # 0
           THEN /\ response' = err
                /\ pc' = "done"
                /\ story' = <<>>
           ELSE /\ response' = NoResponse
                /\ pc' = "provider"
                /\ story' = ComparisonHead(PROPERTIES_DB[property_id_1],
                                           PROPERTIES_DB[property_id_2])
    /\ UNCHANGED <<PROPERTIES_DB, CONTACTS_DB, files, parser_input, paragraphs, workers>>

\* routes.py lines 24-44, GET /compare, up to the provider call.
compare_properties(property_id_1, property_id_2) ==
    /\ Free
    /\ req' = [NoRequest EXCEPT !.endpoint = "compare",
                                !.property_id_1 = property_id_1,
                                !.property_id_2 = property_id_2]
    /\ outcome' = NoOutcome
    /\ summary' = NoSummary
    /\ LET err == compare_check(property_id_1, property_id_2)
       IN  IF err.status # 0
           THEN /\ response' = err
                /\ pc' = "done"
                /\ story' = <<>>
                /\ provider_calls' = 0
           ELSE /\ response' = NoResponse
                /\ pc' = "provider"
                /\ story' = ComparisonHead(PROPERTIES_DB[property_id_1],
                                           PROPERTIES_DB[property_id_2])
                /\ provider_calls' = 1
    /\ UNCHANGED <<PROPERTIES_DB, CONTACTS_DB, files, parser_input, paragraphs, workers>>

\* --------------------------------------------------------------- /quote

\* Mutant of quote_check: the contact is checked before the property.
quote_check_contact_first(property_id, contact_id) ==
    IF contact_id \notin DOMAIN CONTACTS_DB
    THEN HTTPException(404, "Contact ID not found.", <<>>)
    ELSE IF property_id \notin DOMAIN PROPERTIES_DB
    THEN HTTPException(404, "Property ID not found.", <<>>)
    ELSE NoResponse

\* routes.py lines 55-61.
quote_check(property_id, contact_id) ==
    IF property_id \notin DOMAIN PROPERTIES_DB
    THEN HTTPException(404, "Property ID not found.", <<>>)
    ELSE IF contact_id \notin DOMAIN CONTACTS_DB
    THEN HTTPException(404, "Contact ID not found.", <<>>)
    ELSE NoResponse

generate_quote(property_id, contact_id) ==
    /\ Free
    /\ req' = [NoRequest EXCEPT !.endpoint = "quote",
                                !.property_id = property_id,
                                !.contact_id = contact_id]
    /\ outcome' = NoOutcome
    /\ summary' = NoSummary
    /\ provider_calls' = 0
    /\ pc' = "done"
    /\ LET err == quote_check(property_id, contact_id)
       IN  IF err.status # 0
           THEN /\ response' = err
                /\ story' = <<>>
           ELSE LET pdf == generate_quote_pdf(PROPERTIES_DB[property_id], CONTACTS_DB[contact_id])
                IN  /\ story' = pdf.story
                    /\ response' = Response(pdf, <<"quote_">> \o Dec(property_id) \o <<"_for_">>
                                                    \o Dec(contact_id) \o <<".pdf">>)
    /\ UNCHANGED <<PROPERTIES_DB, CONTACTS_DB, files, parser_input, paragraphs, workers>>

\* ----------------------------------------------------------- /recommend

\* Mutant of property_id_list: empty segments are skipped instead of parsed.
property_id_list_skip_empty(property_ids) ==
    LET NonEmpty(part) == Strip(part) # <<>>
        parts == SelectSeq(Split(property_ids, ","), NonEmpty)
    IN  [ok   |-> \A i \in 1..Len(parts) : PyInt(Strip(parts[i])).ok,
         list |-> [i \in 1..Len(parts) |-> PyInt(Strip(parts[i])).value]]

\* [int(pid.strip()) for pid in property_ids.split(',')]: ok is FALSE when
\* some int() raises ValueError.
property_id_list(property_ids) ==
    LET parts == Split(property_ids, ",")
    IN  [ok   |-> \A i \in 1..Len(parts) : PyInt(Strip(parts[i])).ok,
         list |-> [i \in 1..Len(parts) |-> PyInt(Strip(parts[i])).value]]

\* Mutant of missing_properties: only the first absent id is reported.
missing_properties_first_only(list) ==
    LET Absent(prop_id) == prop_id \notin DOMAIN PROPERTIES_DB
        all == SelectSeq(list, Absent)
    IN  IF all = <<>> THEN <<>> ELSE <<Head(all)>>

\* The ids of the list that PROPERTIES_DB.get does not find, in list order.
missing_properties(list) ==
    LET Absent(prop_id) == prop_id \notin DOMAIN PROPERTIES_DB
    IN  SelectSeq(list, Absent)

\* routes.py lines 80-108: the 400 and 404 answers of /recommend, NoResponse
\* when every check passes.
recommend_check(property_ids, contact_id) ==
    LET parsed == property_id_list(property_ids)
    IN  IF ~parsed.ok
        THEN HTTPException(400, "Invalid property IDs format. Use comma-separated integers (e.g., '1,2,3').", <<>>)
        ELSE IF Len(parsed.list) < 2
        THEN HTTPException(400, "At least 2 properties are required for comparison.", <<>>)
        ELSE IF Len(parsed.list) > 3
        THEN HTTPException(400, "Maximum 3 properties allowed for comparison.", <<>>)
        ELSE IF missing_properties(parsed.list) # <<>>
        THEN HTTPException(404, "Properties not found: ", missing_properties(parsed.list))
        ELSE IF contact_id \notin DOMAIN CONTACTS_DB
        THEN HTTPException(404, "Contact ID not found.", <<>>)
        ELSE NoResponse

\* The properties list of a request that passed recommend_check.
PropertiesOf(property_ids) ==
    LET list == property_id_list(property_ids).list
    IN  [i \in 1..Len(list) |-> PROPERTIES_DB[list[i]]]

get_personalized_recommendation(segs, contact_id) ==
    /\ Free
    /\ LET property_ids == Join(segs, <<",">>)
           err == recommend_check(property_ids, contact_id)
       IN  /\ req' = [NoRequest EXCEPT !.endpoint = "recommend",
                                       !.property_ids = property_ids,
                                       !.segs = segs,
                                       !.contact_id = contact_id]
           /\ IF err.status # 0
              THEN /\ response' = err
                   /\ pc' = "done"
                   /\ story' = <<>>
                   /\ provider_calls' = 0
              ELSE /\ response' = NoResponse
                   /\ pc' = "provider"
                   /\ story' = RecommendationHead(PropertiesOf(property_ids),
                                                  CONTACTS_DB[contact_id])
                   /\ provider_calls' = 1
    /\ outcome' = NoOutcome
    /\ summary' = NoSummary
    /\ UNCHANGED <<PROPERTIES_DB, CONTACTS_DB, files, parser_input, paragraphs, workers>>

\* --------------------------------------- the provider call comes back

\* name.replace(' ', '_')
Underscored(name) == [i \in 1..Len(name) |-> IF name[i] = " " THEN "_" ELSE name[i]]

\* "_".join(str(p.id) for p in properties)
RECURSIVE JoinIds(_)
JoinIds(properties) ==
    IF properties = <<>> THEN <<>>
    ELSE IF Len(properties) = 1 THEN Dec(properties[1].id)
    ELSE Dec(properties[1].id) \o <<"_">> \o JoinIds(Tail(properties))

\* The rest of compare_properties (routes.py lines 38-44) once the provider
\* call of generate_comparison_summary has come to outcome o.
compare_returns(o) ==
    LET p1  == PROPERTIES_DB[req.property_id_1]
        p2  == PROPERTIES_DB[req.property_id_2]
        pdf == generate_comparison_pdf(story, p1, p2, o)
    IN  /\ summary' = generate_comparison_summary(p1, p2, o)
        /\ story' = IF pdf.raised THEN story ELSE pdf.story
        /\ response' = Response(pdf, <<"comparison_">> \o Dec(req.property_id_1) \o <<"_vs_">>
                                        \o Dec(req.property_id_2) \o <<".pdf">>)

\* The rest of get_personalized_recommendation (routes.py lines 111-119).
recommend_returns(o) ==
    LET properties == PropertiesOf(req.property_ids)
        contact    == CONTACTS_DB[req.contact_id]
        pdf        == generate_personalized_recommendation_pdf(story, properties, contact, o)
    IN  /\ summary' = generate_personalized_recommendation(properties, contact, o)
        /\ story' = IF pdf.raised THEN story ELSE pdf.story
        /\ response' = Response(pdf, <<"recommendation_">> \o Underscored(contact.name) \o <<"_">>
                                        \o JoinIds(properties) \o <<".pdf">>)

\* Mutant of provider_returns: a failed provider call is issued again.
provider_returns_retrying(o) ==
    /\ pc = "provider"
    /\ outcome' = o
    /\ IF ProviderFailed(o)
       THEN /\ provider_calls' = provider_calls + 1
            /\ UNCHANGED <<pc, story, summary, response>>
       ELSE /\ pc' = "done"
            /\ IF req.endpoint = "compare" THEN compare_returns(o) ELSE recommend_returns(o)
            /\ UNCHANGED provider_calls
    /\ UNCHANGED <<PROPERTIES_DB, CONTACTS_DB, files, parser_input, paragraphs, workers, req>>

\* The single client.chat.completions.create call of the generator returns
\* or raises; the generator, the assembly and the handler run to the end.
provider_returns(o) ==
    /\ pc = "provider"
    /\ outcome' = o
    /\ pc' = "done"
    /\ IF req.endpoint = "compare" THEN compare_returns(o) ELSE recommend_returns(o)
    /\ UNCHANGED <<PROPERTIES_DB, CONTACTS_DB, files, parser_input, paragraphs, workers, req, provider_calls>>

\* The response is sent and the server (main.py, uvicorn.run) is ready for the
\* next request; nothing of the finished request is kept.
request_done ==
    /\ pc = "done"
    /\ pc' = "idle"
    /\ req' = NoRequest
    /\ story' = <<>>
    /\ provider_calls' = 0
    /\ outcome' = NoOutcome
    /\ summary' = NoSummary
    /\ response' = NoResponse
    /\ UNCHANGED <<PROPERTIES_DB, CONTACTS_DB, files, parser_input, paragraphs, workers>>

\* ------------------------------------------- single records and listings

\* A JSON response: the records returned, in order.
JSONResponse(records) ==
    [status |-> 200, detail |-> "", ids |-> <<>>, body |-> records, filename |-> <<>>]

\* A handler that answers at once, with no document and no provider call.
answers(request, answer) ==
    /\ req' = request
    /\ response' = answer
    /\ pc' = "done"
    /\ story' = <<>>
    /\ provider_calls' = 0
    /\ outcome' = NoOutcome
    /\ summary' = NoSummary

\* PROPERTIES_DB.pop(property_id) in place of the subscript: the record
\* returned leaves the store.
get_property_popping(property_id) ==
    /\ Free
    /\ answers([NoRequest EXCEPT !.endpoint = "get_property", !.property_id = property_id],
               IF property_id \notin DOMAIN PROPERTIES_DB
               THEN HTTPException(404, "Property not found.", <<>>)
               ELSE JSONResponse(<<PROPERTIES_DB[property_id]>>))
    /\ PROPERTIES_DB' = [i \in DOMAIN PROPERTIES_DB \ {property_id} |-> PROPERTIES_DB[i]]
    /\ UNCHANGED <<CONTACTS_DB, files, parser_input, paragraphs, workers>>

\* routes.py lines 140-148, GET /properties/{property_id}.
get_property(property_id) ==
    /\ Free
    /\ answers([NoRequest EXCEPT !.endpoint = "get_property", !.property_id = property_id],
               IF property_id \notin DOMAIN PROPERTIES_DB
               THEN HTTPException(404, "Property not found.", <<>>)
               ELSE JSONResponse(<<PROPERTIES_DB[property_id]>>))
    /\ UNCHANGED <<PROPERTIES_DB, CONTACTS_DB, files, parser_input, paragraphs, workers>>

\* routes.py lines 151-159, GET /contacts/{contact_id}.
get_contact(contact_id) ==
    /\ Free
    /\ answers([NoRequest EXCEPT !.endpoint = "get_contact", !.contact_id = contact_id],
               IF contact_id \notin DOMAIN CONTACTS_DB
               THEN HTTPException(404, "Contact not found.", <<>>)
               ELSE JSONResponse(<<CONTACTS_DB[contact_id]>>))
    /\ UNCHANGED <<PROPERTIES_DB, CONTACTS_DB, files, parser_input, paragraphs, workers>>

\* Query(10, ...): the limit of a request that gives none.
DefaultLimit == 10

\* The limit query parameter: given with an integer value, or not given.
LimitInputs ==
    { [given |-> TRUE, value |-> v] : v \in -2..4 } \cup { [given |-> FALSE, value |-> 0] }

QueryLimit(limit) == IF limit.given THEN limit.value ELSE DefaultLimit

RECURSIVE Ascending(_)
Ascending(ids) ==
    IF ids = {} THEN <<>>
    ELSE LET least == CHOOSE i \in ids : \A j \in ids : i <= j
         IN  <<least>> \o Ascending(ids \ {least})

\* list(db.values()): a dict keeps the order of insertion, which is the order
\* of the records in the data file; generate-data.py writes them by rising id.
Values(db) == [k \in 1..Cardinality(DOMAIN db) |-> db[Ascending(DOMAIN db)[k]]]

\* Python's list[:limit]: the first `limit` items, and for a negative limit
\* all but the last -limit items.
SliceTo(list, limit) ==
    IF limit >= 0
    THEN SubSeq(list, 1, IF limit < Len(list) THEN limit ELSE Len(list))
    ELSE SubSeq(list, 1, IF Len(list) + limit > 0 THEN Len(list) + limit ELSE 0)

\* routes.py lines 122-128, GET /properties.
list_properties(limit) ==
    /\ Free
    /\ answers([NoRequest EXCEPT !.endpoint = "list_properties", !.limit = limit],
               JSONResponse(SliceTo(Values(PROPERTIES_DB), QueryLimit(limit))))
    /\ UNCHANGED <<PROPERTIES_DB, CONTACTS_DB, files, parser_input, paragraphs, workers>>

\* routes.py lines 131-137, GET /contacts.
list_contacts(limit) ==
    /\ Free
    /\ answers([NoRequest EXCEPT !.endpoint = "list_contacts", !.limit = limit],
               JSONResponse(SliceTo(Values(CONTACTS_DB), QueryLimit(limit))))
    /\ UNCHANGED <<PROPERTIES_DB, CONTACTS_DB, files, parser_input, paragraphs, workers>>

\* A request arrives only at a free worker: the guard is stated once, ahead of
\* the choice of the request's parameters.
Next ==
    \/ Free /\ \E a, b \in PropertyIdInputs : compare_properties(a, b)
    \/ Free /\ \E p \in PropertyIdInputs, c \in ContactIdInputs : generate_quote(p, c)
    \/ Free /\ \E segs \in SegLists, c \in ContactIdInputs : get_personalized_recommendation(segs, c)
    \/ \E p \in PropertyIdInputs : get_property(p)
    \/ \E c \in ContactIdInputs : get_contact(c)
    \/ \E limit \in LimitInputs : list_properties(limit)
    \/ \E limit \in LimitInputs : list_contacts(limit)
    \/ \E o \in ProviderOutcomes : provider_returns(o)
    \/ request_done

Spec == Init /\ [][Next]_vars

\* ---------------------------------------------------------- properties

\* The integer each integer segment of a property_ids string denotes.
TokenValue(tok) ==
    CASE tok = <<"1">>           -> 1
      [] tok = <<"2">>           -> 2
      [] tok = <<" ", "3", " ">> -> 3
      [] tok = <<"4">>           -> 4
      [] tok = <<"-", "1">>      -> 0 - 1

AllInteger(segs) == \A i \in 1..Len(segs) : segs[i] \in IntTokens

\* A /recommend request whose id list is 2 or 3 integers.
ValidIdList(segs) == AllInteger(segs) /\ Len(segs) \in {2, 3}

RequestedIds(segs) == [i \in 1..Len(segs) |-> TokenValue(segs[i])]

\* The requested ids that are in no property record, in request order.
AbsentIds(segs) ==
    LET NotLoaded(id) == id \notin DOMAIN PROPERTIES_DB
    IN  SelectSeq(RequestedIds(segs), NotLoaded)

\* C1: GET /recommend answers 400 exactly when the comma-separated
\* property_ids string holds a segment that is not an integer, or fewer than
\* 2 ids, or more than 3 ids; a list of 2 or 3 integer ids is never answered
\* 400.
C1_RecommendBadRequest ==
    req.endpoint = "recommend" =>
        (response.status = 400 <=>
            \/ ~AllInteger(req.segs)
            \/ Len(req.segs) < 2
            \/ Len(req.segs) > 3)

\* C1 witness: four integer ids are answered 400.
C1_Witness ==
    /\ req.endpoint = "recommend"
    /\ AllInteger(req.segs)
    /\ Len(req.segs) = 4
    /\ response.status = 400

\* C2: for a /recommend request whose id list passed the 2-3 count check,
\* any absent property gives one 404 whose detail lists every absent id of
\* the request in request order, also when the contact is absent; the
\* "Contact ID not found." 404 is given only when every requested property
\* exists and the contact does not.
C2_RecommendNotFoundOrder ==
    (req.endpoint = "recommend" /\ ValidIdList(req.segs)) =>
        /\ AbsentIds(req.segs) # <<>> =>
              /\ response.status = 404
              /\ response.detail = "Properties not found: "
              /\ response.ids = AbsentIds(req.segs)
        /\ response.detail = "Contact ID not found." <=>
              /\ AbsentIds(req.segs) = <<>>
              /\ req.contact_id \notin DOMAIN CONTACTS_DB
        /\ response.detail = "Contact ID not found." => response.status = 404

\* C2 witness: two absent properties and an absent contact, the 404 lists
\* both properties.
C2_Witness ==
    /\ req.endpoint = "recommend"
    /\ ValidIdList(req.segs)
    /\ Len(AbsentIds(req.segs)) >= 2
    /\ \E i \in DOMAIN PROPERTIES_DB : TRUE
    /\ req.contact_id \notin DOMAIN CONTACTS_DB
    /\ response.status = 404
    /\ response.ids = AbsentIds(req.segs)

\* The ids among the two of a /compare request that are in no property record.
CompareAbsent ==
    LET NotLoaded(id) == id \notin DOMAIN PROPERTIES_DB
    IN  SelectSeq(<<req.property_id_1, req.property_id_2>>, NotLoaded)

\* C3 as stated: the 404 of /compare names the missing id(s).
C3_CompareNamesMissingIds ==
    (req.endpoint = "compare" /\ response.status = 404) =>
        /\ response.ids # <<>>
        /\ \A i \in 1..Len(CompareAbsent) : InList(CompareAbsent[i], response.ids)

\* C3 amended: /compare answers 404 exactly when property_id_1 or
\* property_id_2 is absent from the store, and the 404 carries the fixed
\* detail "One or both property IDs not found.", which names no id.
C3_CompareNotFound ==
    req.endpoint = "compare" =>
        /\ response.status = 404 <=> CompareAbsent # <<>>
        /\ response.status = 404 =>
              /\ response.detail = "One or both property IDs not found."
              /\ response.ids = <<>>

\* C3 witness: exactly one of the two ids is absent and the answer is 404.
C3_Witness ==
    /\ req.endpoint = "compare"
    /\ req.property_id_1 \in DOMAIN PROPERTIES_DB
    /\ req.property_id_2 \notin DOMAIN PROPERTIES_DB
    /\ response.status = 404

\* C4: /quote answers 404 "Property ID not found." when the property is
\* absent (also when the contact is absent too), 404 "Contact ID not found."
\* when the property is present and the contact absent, and a document only
\* when both are present.
C4_QuoteNotFound ==
    req.endpoint = "quote" =>
        /\ req.property_id \notin DOMAIN PROPERTIES_DB =>
              response.status = 404 /\ response.detail = "Property ID not found."
        /\ (req.property_id \in DOMAIN PROPERTIES_DB /\ req.contact_id \notin DOMAIN CONTACTS_DB) =>
              response.status = 404 /\ response.detail = "Contact ID not found."
        /\ (response.status = 200 /\ response.body # <<>>) <=>
              (req.property_id \in DOMAIN PROPERTIES_DB /\ req.contact_id \in DOMAIN CONTACTS_DB)

\* C4 witness: property and contact both absent from loaded stores, the
\* property error is reported.
C4_Witness ==
    /\ req.endpoint = "quote"
    /\ \E i \in DOMAIN PROPERTIES_DB : TRUE
    /\ req.property_id \notin DOMAIN PROPERTIES_DB
    /\ req.contact_id \notin DOMAIN CONTACTS_DB
    /\ response.detail = "Property ID not found."

\* The records a request that passed its checks is about.
RequestedProperties == [i \in 1..Len(req.segs) |-> PROPERTIES_DB[RequestedIds(req.segs)[i]]]

ComparePassed == req.endpoint = "compare" /\ CompareAbsent = <<>>

RecommendPassed ==
    /\ req.endpoint = "recommend"
    /\ ValidIdList(req.segs)
    /\ AbsentIds(req.segs) = <<>>
    /\ req.contact_id \in DOMAIN CONTACTS_DB

\* The provider call of the request in hand failed.
Failed == outcome.kind \in {"no_content", "error"}

\* C5: a /compare request with both properties present and a /recommend
\* request with valid, present ids and an existing contact end in a 200
\* document whatever the provider call came to, also when the generator's
\* own fallback computation fails (area_sqm = 0).
C5_GeneratorFailureNotSurfaced ==
    (pc = "done" /\ (ComparePassed \/ RecommendPassed)) =>
        /\ response.status = 200
        /\ response.body # <<>>

\* C5 witness: a comparison of a property of area 0 whose provider call
\* failed is answered 200.
C5_Witness ==
    /\ pc = "done"
    /\ ComparePassed
    /\ PROPERTIES_DB[req.property_id_1].area_sqm = 0
    /\ Failed
    /\ response.status = 200

\* C6: when the generator call raises inside document assembly, the
\* narrative section is exactly the one static "AI analysis temporarily
\* unavailable" paragraph, the blocks assembled before it are the title,
\* tables and section header unchanged, and the timestamped footer is the
\* last block.
C6_UnavailableParagraphThenFooter ==
    (pc = "done" /\ summary.raised) =>
        LET head == IF req.endpoint = "compare"
                    THEN ComparisonHead(PROPERTIES_DB[req.property_id_1],
                                        PROPERTIES_DB[req.property_id_2])
                    ELSE RecommendationHead(RequestedProperties, CONTACTS_DB[req.contact_id])
            unavailable == IF req.endpoint = "compare"
                           THEN ComparisonUnavailable ELSE RecommendationUnavailable
        IN  /\ story = head \o <<unavailable>> \o Footer
            /\ story[Len(story)] = Footer[2]
            /\ response.body = story

\* C6 witness: the generator raised and the story holds the static paragraph.
C6_Witness ==
    /\ pc = "done"
    /\ summary.raised
    /\ Len(story) >= 3
    /\ story[Len(story) - 2] = ComparisonUnavailable

\* C7 as stated: generate_comparison_summary never raises to its caller.
C7_SummaryNeverRaises ==
    (pc = "done" /\ req.endpoint = "compare") => ~summary.raised

\* The flag the fallback text shows after `label` on a line.
ShownFlag(line, label) ==
    LET i == Find(line, label, 1)
    IN  IF i = 0 \/ i + 2 > Len(line) THEN "none" ELSE line[i + 2]

\* The "Property k: Budget .. | Area .. | Rooms .. | Type .." line.
IsFlagLine(line, k) ==
    /\ Len(line) >= 4
    /\ SubSeq(line, 1, 2) = <<"Property", " ">>
    /\ SubSeq(line, 3, 2 + Len(Dec(k))) = Dec(k)
    /\ line[3 + Len(Dec(k))] = ":"

\* C8 as stated: in the fallback text of personalizedRecommendation the four
\* flags of every property are each correct: Budget iff min_budget <= price
\* <= max_budget, Area iff min_area_sqm <= area_sqm <= max_area_sqm, Rooms
\* iff number_of_rooms >= min_rooms, Type iff property_type in property_types.
C8_FallbackFlagsCorrect ==
    (pc = "done" /\ req.endpoint = "recommend" /\ Failed) =>
        LET lines == Split(summary.text, "\n")
            c == CONTACTS_DB[req.contact_id]
        IN  \A k \in 1..Len(RequestedProperties) :
              LET p == RequestedProperties[k]
              IN  \E i \in 1..Len(lines) :
                    /\ IsFlagLine(lines[i], k)
                    /\ ShownFlag(lines[i], "Budget")
                         = Mark(c.min_budget <= p.price /\ p.price <= c.max_budget)
                    /\ ShownFlag(lines[i], "Area")
                         = Mark(c.min_area_sqm <= p.area_sqm /\ p.area_sqm <= c.max_area_sqm)
                    /\ ShownFlag(lines[i], "Rooms") = Mark(p.number_of_rooms >= c.min_rooms)
                    /\ ShownFlag(lines[i], "Type") = Mark(InList(p.property_type, c.property_types))

LoadedProperties == load_stores(files.properties, files.contacts).properties

LoadedContacts == load_stores(files.properties, files.contacts).contacts

\* A lookup of ids by a single-record or a document endpoint came to its answer.
LookupAnswered ==
    /\ pc = "done"
    /\ \/ req.endpoint \in {"get_property", "get_contact", "compare", "quote"}
       \/ req.endpoint = "recommend" /\ ValidIdList(req.segs)

\* C11 as stated: if either data source is missing or malformed, the process
\* runs, both stores are empty, and every lookup of an id by a single-record
\* or document endpoint is answered 404.
C11_FailedLoadGivesEmptyStores ==
    (files.properties # "ok" \/ files.contacts # "ok") =>
        /\ pc # "crashed"
        /\ PROPERTIES_DB = EmptyStore
        /\ CONTACTS_DB = EmptyStore
        /\ LookupAnswered => response.status = 404

\* C12: the stores always hold what the startup loaded, whatever requests
\* were served and however they ended; a single-record lookup answers 404
\* for an id absent at load time and the loaded record for an id present.
C12_StoreReadOnly ==
    /\ PROPERTIES_DB = LoadedProperties
    /\ CONTACTS_DB = LoadedContacts
    /\ (pc = "done" /\ req.endpoint = "get_property") =>
          response = IF req.property_id \in DOMAIN LoadedProperties
                     THEN JSONResponse(<<LoadedProperties[req.property_id]>>)
                     ELSE HTTPException(404, "Property not found.", <<>>)
    /\ (pc = "done" /\ req.endpoint = "get_contact") =>
          response = IF req.contact_id \in DOMAIN LoadedContacts
                     THEN JSONResponse(<<LoadedContacts[req.contact_id]>>)
                     ELSE HTTPException(404, "Contact not found.", <<>>)

\* C12 witness: with loaded stores a lookup of a present property id was
\* answered with its record, and the store still holds every loaded record.
C12_Witness ==
    /\ pc = "done"
    /\ req.endpoint = "get_property"
    /\ req.property_id = 2
    /\ response.status = 200
    /\ response.body = <<PropertyRecords[2]>>
    /\ PROPERTIES_DB = PropertyRecords

\* ------------------------------------------------------- listings (C19)

\* C19 as stated: GET /properties and GET /contacts return at most `limit`
\* records (none for a limit below zero) for every integer limit, the limit
\* being 10 when none is given, and the records returned are the first ones
\* of the store in load order.
C19_ListReturnsAtMostLimit ==
    (pc = "done" /\ req.endpoint \in {"list_properties", "list_contacts"}) =>
        LET limit == IF req.limit.given THEN req.limit.value ELSE 10
            all == IF req.endpoint = "list_properties"
                   THEN Values(PROPERTIES_DB) ELSE Values(CONTACTS_DB)
        IN  /\ response.status = 200
            /\ Len(response.body) <= (IF limit > 0 THEN limit ELSE 0)
            /\ Len(response.body) <= Len(all)
            /\ response.body = SubSeq(all, 1, Len(response.body))

\* ------------------------------------------ the overview table (C17)

\* The properties-overview table of the document being assembled.
OverviewTable == story[9]

\* The mark a cell of the overview table ends with.
CellMark(cell) == cell[Len(cell)]

\* The line of the fallback text that carries the flags of property k.
FlagLine(k) ==
    LET lines == Split(summary.text, "\n")
    IN  lines[CHOOSE i \in 1..Len(lines) : IsFlagLine(lines[i], k)]

\* The overview table has one row per requested property, in request order,
\* and each of its four marked cells carries a checkmark iff its predicate holds.
OverviewRowsCorrect ==
    LET rows == Tail(OverviewTable.data)
        c == CONTACTS_DB[req.contact_id]
    IN  /\ OverviewTable.kind = "Table"
        /\ OverviewTable.style = "properties"
        /\ Len(rows) = Len(req.segs)
        /\ \A k \in 1..Len(rows) :
              LET p == RequestedProperties[k]
              IN  /\ rows[k][1] = <<"Property", " ">> \o Dec(k)
                  /\ rows[k][2] = <<p.address>>
                  /\ CellMark(rows[k][3]) = Mark(c.min_budget <= p.price /\ p.price <= c.max_budget)
                  /\ CellMark(rows[k][4])
                       = Mark(c.min_area_sqm <= p.area_sqm /\ p.area_sqm <= c.max_area_sqm)
                  /\ CellMark(rows[k][5]) = Mark(p.number_of_rooms >= c.min_rooms)
                  /\ CellMark(rows[k][6]) = Mark(InList(p.property_type, c.property_types))

\* The flags of the fallback text are the marks of the overview table.
FallbackAgreesWithTable ==
    LET rows == Tail(OverviewTable.data)
    IN  \A k \in 1..Len(rows) :
          /\ ShownFlag(FlagLine(k), "Budget") = CellMark(rows[k][3])
          /\ ShownFlag(FlagLine(k), "Area") = CellMark(rows[k][4])
          /\ ShownFlag(FlagLine(k), "Rooms") = CellMark(rows[k][5])
          /\ ShownFlag(FlagLine(k), "Type") = CellMark(rows[k][6])

\* C17 as stated: in the recommendation document the properties-overview
\* table has exactly one row per requested property in request order, its
\* price, area, rooms and type cells carry a checkmark iff the respective
\* predicate holds, and these are the match results the recommendation
\* fallback text reports for that property.
C17_OverviewTableMatchesFallback ==
    (RecommendPassed /\ pc \in {"provider", "done"}) =>
        /\ OverviewRowsCorrect
        /\ (pc = "done" /\ Failed) => FallbackAgreesWithTable

\* ------------------------------- validation before the provider (C20)

QuotePassed ==
    /\ req.endpoint = "quote"
    /\ req.property_id \in DOMAIN PROPERTIES_DB
    /\ req.contact_id \in DOMAIN CONTACTS_DB

\* C20: a provider request has been issued, or a document has been started,
\* only for a request whose every input check and store lookup passed; a
\* request answered 400 or 404 issued no provider request and started no
\* document; /quote issues no provider request even when it succeeds.
C20_ValidationBeforeProvider ==
    /\ response.status \in {400, 404} =>
          provider_calls = 0 /\ story = <<>> /\ outcome = NoOutcome
    /\ (provider_calls > 0 \/ pc = "provider" \/ outcome # NoOutcome) =>
          ComparePassed \/ RecommendPassed
    /\ story # <<>> => ComparePassed \/ RecommendPassed \/ QuotePassed
    /\ req.endpoint = "quote" => provider_calls = 0 /\ outcome = NoOutcome /\ pc # "provider"

\* C20 witness: a /quote request succeeded with a document and no provider
\* request, after its lookups passed.
C20_Witness ==
    /\ pc = "done"
    /\ QuotePassed
    /\ response.status = 200
    /\ story # <<>>
    /\ provider_calls = 0

\* The table half of C17 on its own.
OverviewTableCorrect ==
    (RecommendPassed /\ pc \in {"provider", "done"}) => OverviewRowsCorrect

\* --------------------------------------- the formatter on its own texts

\* The characters the formatter inspects, and a letter.
LineAlphabet == {"#", "*", "1", ".", " ", "-", "a"}

\* Lines of a multi-line text: blank, of each class, and near misses.
LineTokens ==
    { <<>>,
      <<" ">>,
      <<"#", "#", "#", " ", "a">>,
      <<"*", "*", "b", "*", "*">>,
      <<"1", ".", " ", "c">>,
      <<"-", " ", "a">>,
      <<" ", "b", " ">>,
      <<"c", " ", "*", "*", "a", "*", "*", " ", "b">>,
      <<"#", "#", "a">>,
      <<"-", "b">>,
      <<"1", "2", ".", " ", " ", "*", "*", "c", "*", "*">> }

\* The number before the dot of a numbered line.
NumberTokens == { <<"1">>, <<"1", "2">> }

\* The lines "<digits>. t" and "- t" of one content text t.
PairText(digits, t) == digits \o <<".", " ">> \o t \o NL \o <<"-", " ">> \o t

\* The texts handed to format_llm_text_for_pdf: single lines over the line
\* alphabet, lines of markers and letters, multi-line texts, and line pairs
\* with one content text.
IsParserInput(input) ==
    \/ \E n \in 0..MaxLineLen : \E t \in [1..n -> LineAlphabet] :
          input = [family |-> "line", text |-> t, content |-> <<>>]
    \/ \E n \in 0..MaxStarLen : \E t \in [1..n -> {"*", "a"}] :
          input = [family |-> "stars", text |-> t, content |-> <<>>]
    \/ \E n \in 1..MaxLines : \E ls \in [1..n -> LineTokens] :
          input = [family |-> "lines", text |-> Join(ls, "\n"), content |-> <<>>]
    \/ \E d \in NumberTokens : \E n \in 0..MaxContentLen : \E t \in [1..n -> {" ", "a", "*"}] :
          input = [family |-> "pair", text |-> PairText(d, t), content |-> t]

ParserInit ==
    /\ files = [properties |-> "ok", contacts |-> "ok"]
    /\ PROPERTIES_DB = PropertyRecords
    /\ CONTACTS_DB = ContactRecords
    /\ pc = "format"
    /\ req = NoRequest
    /\ story = <<>>
    /\ provider_calls = 0
    /\ outcome = NoOutcome
    /\ summary = NoSummary
    /\ response = NoResponse
    /\ IsParserInput(parser_input)
    /\ paragraphs = <<>>
    /\ workers = NoWorkers

\* formatted_paragraphs = format_llm_text_for_pdf(text)
format_text ==
    /\ pc = "format"
    /\ paragraphs' = format_llm_text_for_pdf(parser_input.text)
    /\ pc' = "formatted"
    /\ UNCHANGED <<PROPERTIES_DB, CONTACTS_DB, files, parser_input, workers,
                   req, story, provider_calls, outcome, summary, response>>

ParserNext == format_text

ParserSpec == ParserInit /\ [][ParserNext]_vars

\* ------------------------------------------ line classes (C13, C14)

\* A line with a character that is not whitespace.
IsBlank(line) == \A i \in 1..Len(line) : IsSpace(line[i])

RECURSIVE NonBlank(_)
NonBlank(lines) ==
    IF lines = <<>> THEN <<>>
    ELSE IF IsBlank(Head(lines)) THEN NonBlank(Tail(lines))
    ELSE <<Head(lines)>> \o NonBlank(Tail(lines))

\* The trimmed non-blank lines of the text handed to the formatter, in order.
SourceLines ==
    LET lines == NonBlank(Split(parser_input.text, "\n"))
    IN  [k \in 1..Len(lines) |-> Strip(lines[k])]

\* Number of "#" a line starts with.
HashRun(line) ==
    CHOOSE n \in 0..Len(line) :
        /\ \A i \in 1..n : line[i] = "#"
        /\ n = Len(line) \/ line[n + 1] # "#"

IsHeaderLine(line) == HashRun(line) >= 3

IsBoldLine(line) ==
    /\ Len(line) > 4
    /\ line[1] = "*" /\ line[2] = "*"
    /\ line[Len(line) - 1] = "*" /\ line[Len(line)] = "*"

\* Digits, a dot and whitespace at the start of the line.
IsNumberedLine(line) ==
    \E d \in 1..Len(line) :
        /\ d + 2 <= Len(line)
        /\ \A i \in 1..d : line[i] \in {"0", "1", "2", "3", "4", "5", "6", "7", "8", "9"}
        /\ line[d + 1] = "."
        /\ IsSpace(line[d + 2])

IsDashLine(line) == Len(line) >= 2 /\ line[1] = "-" /\ line[2] = " "

\* The block kind of the first rule a line matches.
LineClass(line) ==
    IF IsHeaderLine(line) THEN "SUBHEADER_STYLE"
    ELSE IF IsBoldLine(line) THEN "BOLD_STYLE"
    ELSE IF IsNumberedLine(line) \/ IsDashLine(line) THEN "BULLET_STYLE"
    ELSE "BODY_STYLE"

\* C13: every trimmed non-blank line becomes the block of the first rule it
\* matches: three or more leading '#' give a SubHeader whose text is the line
\* without its leading '#' and surrounding whitespace; '**' at both ends of
\* a line longer than 4 gives Bold with the outer marker pair removed;
\* digits-dot-whitespace and '- ' give a BulletItem; anything else a Paragraph.
C13_LineClassification ==
    pc = "formatted" =>
        /\ Len(paragraphs) = Len(SourceLines)
        /\ \A k \in 1..Len(SourceLines) :
              LET line == SourceLines[k]
                  block == paragraphs[k]
              IN  /\ block.kind = "Paragraph"
                  /\ block.style = LineClass(line)
                  /\ IsHeaderLine(line) =>
                        block.text = Strip(SubSeq(line, HashRun(line) + 1, Len(line)))
                  /\ (~IsHeaderLine(line) /\ IsBoldLine(line)) =>
                        block.text = SubSeq(line, 3, Len(line) - 2)
                  /\ block.style = "BULLET_STYLE" =>
                        SubSeq(block.text, 1, 2) = <<"(bullet)", " ">>

\* C13 witness: a three-line text was formatted into a SubHeader, a Bold
\* and a BulletItem block.
C13_Witness ==
    /\ pc = "formatted"
    /\ Len(paragraphs) = 3
    /\ paragraphs[1].style = "SUBHEADER_STYLE" /\ paragraphs[1].text = <<"a">>
    /\ paragraphs[2].style = "BOLD_STYLE" /\ paragraphs[2].text = <<"b">>
    /\ paragraphs[3].style = "BULLET_STYLE"

\* The letters of a text, in order.
RECURSIVE Letters(_)
Letters(s) ==
    IF s = <<>> THEN <<>>
    ELSE IF Head(s) \in {"a", "b", "c"} THEN <<Head(s)>> \o Letters(Tail(s))
    ELSE Letters(Tail(s))

\* C14: the formatter yields exactly one block per line that is non-blank
\* after trimming, in the order of the source lines (the k-th block carries
\* the letters of the k-th non-blank line); blank and whitespace-only lines
\* yield no block and no line yields more than one.
C14_OneBlockPerLine ==
    pc = "formatted" =>
        /\ Len(paragraphs) = Len(SourceLines)
        /\ \A k \in 1..Len(SourceLines) :
              Letters(paragraphs[k].text) = Letters(SourceLines[k])

\* C14 witness: a text of three lines whose middle line is blank was
\* formatted into two blocks with different letters.
C14_Witness ==
    /\ pc = "formatted"
    /\ parser_input.family = "lines"
    /\ Len(Split(parser_input.text, "\n")) = 3
    /\ IsBlank(Split(parser_input.text, "\n")[2])
    /\ Len(paragraphs) = 2
    /\ Letters(paragraphs[1].text) = <<"a">>
    /\ Letters(paragraphs[2].text) = <<"c">>

\* --------------------------------------------- inline bold (C15)

\* Number of digits a line starts with.
DigitRun(line) ==
    CHOOSE n \in 0..Len(line) :
        /\ \A i \in 1..n : line[i] \in {"0", "1", "2", "3", "4", "5", "6", "7", "8", "9"}
        /\ n = Len(line) \/ line[n + 1] \notin {"0", "1", "2", "3", "4", "5", "6", "7", "8", "9"}

\* The text of a BulletItem or Paragraph line that inline bold applies to:
\* the line without its list marker.
MarkedText(line) ==
    IF IsNumberedLine(line) THEN LStrip(SubSeq(line, DigitRun(line) + 2, Len(line)))
    ELSE IF IsDashLine(line) THEN SubSeq(line, 3, Len(line))
    ELSE line

\* The text of a BulletItem or Paragraph block without its bullet glyph.
ConvertedText(block) ==
    IF block.style = "BULLET_STYLE" THEN SubSeq(block.text, 3, Len(block.text)) ELSE block.text

\* A converted text with every bold directive put back to the marker "**".
RECURSIVE Untag(_)
Untag(s) ==
    IF s = <<>> THEN <<>>
    ELSE IF Head(s) \in {"<b>", "</b>"} THEN <<"*", "*">> \o Untag(Tail(s))
    ELSE <<Head(s)>> \o Untag(Tail(s))

\* The bold directives of a converted text, in order.
RECURSIVE Tags(_)
Tags(s) ==
    IF s = <<>> THEN <<>>
    ELSE IF Head(s) \in {"<b>", "</b>"} THEN <<Head(s)>> \o Tags(Tail(s))
    ELSE Tags(Tail(s))

\* The pieces of a converted text between its directives: the odd ones lie
\* outside the bold spans, the even ones are the spans.
Pieces(s) ==
    Split([i \in 1..Len(s) |-> IF s[i] \in {"<b>", "</b>"} THEN "<tag>" ELSE s[i]], "<tag>")

HasMarker(s) == \E i \in 1..Len(s) : i + 1 <= Len(s) /\ s[i] = "*" /\ s[i + 1] = "*"

HasMarkerPair(s) ==
    \E i, j \in 1..Len(s) :
        /\ i + 2 <= j /\ j + 1 <= Len(s)
        /\ s[i] = "*" /\ s[i + 1] = "*" /\ s[j] = "*" /\ s[j + 1] = "*"

EndsWithStar(s) == s # <<>> /\ s[Len(s)] = "*"

\* `converted` is `source` with every paired "**...**" made a bold span,
\* pairs taken from the left and closed at the nearest marker, and with
\* everything else, unpaired markers included, left as it was.
IsBoldConversion(source, converted) ==
    LET tags == Tags(converted)
        pieces == Pieces(converted)
    IN  /\ Untag(converted) = source
        /\ Len(tags) % 2 = 0
        /\ \A i \in 1..Len(tags) : tags[i] = IF i % 2 = 1 THEN "<b>" ELSE "</b>"
        /\ \A i \in 1..(Len(pieces) - 1) :
              ~HasMarker(pieces[i]) /\ ~EndsWithStar(pieces[i])
        /\ ~HasMarkerPair(pieces[Len(pieces)])

\* C15: in every BulletItem and Paragraph block the text is the line's text
\* with each paired '**...**' replaced by a bold directive around the
\* enclosed span, the markers removed and the text outside the spans
\* unmodified; an unpaired marker stays in the text literally, and the
\* conversion yields a block for every such line.
C15_InlineBoldConversion ==
    pc = "formatted" =>
        /\ Len(paragraphs) = Len(SourceLines)
        /\ \A k \in 1..Len(SourceLines) :
              paragraphs[k].style \in {"BULLET_STYLE", "BODY_STYLE"} =>
                  IsBoldConversion(MarkedText(SourceLines[k]), ConvertedText(paragraphs[k]))

\* C15 witness: the line "a**a****" became "a", a bold span around "a" and
\* the unpaired marker, left as it was.
C15_Witness ==
    /\ pc = "formatted"
    /\ parser_input.text = <<"a", "*", "*", "a", "*", "*", "*", "*">>
    /\ Len(paragraphs) = 1
    /\ paragraphs[1].style = "BODY_STYLE"
    /\ paragraphs[1].text = <<"a", "<b>", "a", "</b>", "*", "*">>

\* ------------------------------------ numbered and dash lines (C16)

\* The two blocks of a line pair are BulletItems with one and the same text.
PairOfEqualBullets ==
    /\ Len(paragraphs) = 2
    /\ paragraphs[1].style = "BULLET_STYLE"
    /\ paragraphs[2].style = "BULLET_STYLE"
    /\ paragraphs[1].text = paragraphs[2].text

\* C16 as stated: for every content text t the lines '<digits>. t' and
\* '- t' each produce exactly one BulletItem block, and the two blocks have
\* identical text.
C16_NumberedEqualsDash ==
    (pc = "formatted" /\ parser_input.family = "pair") => PairOfEqualBullets

\* C16, amended: for every content text t that is not empty and does not
\* begin with whitespace, the lines '<digits>. t' and '- t' each produce
\* exactly one BulletItem block and the two blocks have identical text: the
\* bullet glyph, one space, then t without trailing whitespace and with
\* inline bold converted.
C16_NumberedEqualsDashForTrimmedContent ==
    (/\ pc = "formatted"
     /\ parser_input.family = "pair"
     /\ parser_input.content # <<>>
     /\ ~IsSpace(parser_input.content[1])) =>
        /\ PairOfEqualBullets
        /\ IsBoldConversion(RStrip(parser_input.content), ConvertedText(paragraphs[1]))
        /\ SubSeq(paragraphs[1].text, 1, 2) = <<"(bullet)", " ">>

\* C16 witness: the lines "12. **a**" and "- **a**" both became the
\* BulletItem with the bold span around "a".
C16_Witness ==
    /\ pc = "formatted"
    /\ parser_input.family = "pair"
    /\ parser_input.content = <<"*", "*", "a", "*", "*">>
    /\ parser_input.text[2] = "2"
    /\ PairOfEqualBullets
    /\ paragraphs[1].text = <<"(bullet)", " ", "<b>", "a", "</b>">>

\* ------------------------------------------- several requests at once

\* The path functions are plain `def`s: the framework runs each request in a
\* thread of its own. A request's story, summary and response are locals of
\* its handler; the stores are the module's globals.
Workers == 1..NumWorkers

IdleWorker ==
    [pc |-> "idle", req |-> NoRequest, story |-> <<>>, provider_calls |-> 0,
     outcome |-> NoOutcome, summary |-> NoSummary, response |-> NoResponse]

\* The requests served at once: for each document endpoint one that passes
\* its checks and ones that fail them.
ConcurrentRequests ==
    { [NoRequest EXCEPT !.endpoint = "compare", !.property_id_1 = c[1], !.property_id_2 = c[2]] :
        c \in {<<1, 2>>, <<3, 1>>, <<1, 4>>} }
    \cup { [NoRequest EXCEPT !.endpoint = "quote", !.property_id = q[1], !.contact_id = q[2]] :
             q \in {<<1, 1>>, <<4, 1>>} }
    \cup { [NoRequest EXCEPT !.endpoint = "recommend", !.segs = segs,
                             !.property_ids = Join(segs, <<",">>), !.contact_id = 1] :
             segs \in { <<<<"1">>, <<"2">>>>, <<<<"1">>, <<"x">>>>, <<<<"1">>, <<"4">>>> } }

ComparisonFilename(request) ==
    <<"comparison_">> \o Dec(request.property_id_1) \o <<"_vs_">>
        \o Dec(request.property_id_2) \o <<".pdf">>

QuoteFilename(request) ==
    <<"quote_">> \o Dec(request.property_id) \o <<"_for_">> \o Dec(request.contact_id) \o <<".pdf">>

RecommendationFilename(request) ==
    <<"recommendation_">> \o Underscored(CONTACTS_DB[request.contact_id].name) \o <<"_">>
        \o JoinIds(PropertiesOf(request.property_ids)) \o <<".pdf">>

\* The check of a request's endpoint: its 400 / 404, or NoResponse.
request_check(request) ==
    IF request.endpoint = "compare"
    THEN compare_check(request.property_id_1, request.property_id_2)
    ELSE IF request.endpoint = "quote"
    THEN quote_check(request.property_id, request.contact_id)
    ELSE recommend_check(request.property_ids, request.contact_id)

\* The story of a request that passed its check, up to the provider call.
request_head(request) ==
    IF request.endpoint = "compare"
    THEN ComparisonHead(PROPERTIES_DB[request.property_id_1], PROPERTIES_DB[request.property_id_2])
    ELSE IF request.endpoint = "quote"
    THEN <<>>
    ELSE RecommendationHead(PropertiesOf(request.property_ids), CONTACTS_DB[request.contact_id])

\* A handler from its start to the provider call, or to its response when it
\* makes none (routes.py lines 24-119).
handle(request) ==
    IF request_check(request).status # 0
    THEN [IdleWorker EXCEPT !.pc = "done", !.req = request, !.response = request_check(request)]
    ELSE IF request.endpoint = "quote"
    THEN LET pdf == generate_quote_pdf(PROPERTIES_DB[request.property_id],
                                       CONTACTS_DB[request.contact_id])
         IN  [IdleWorker EXCEPT !.pc = "done", !.req = request, !.story = pdf.story,
                                !.response = Response(pdf, QuoteFilename(request))]
    ELSE [IdleWorker EXCEPT !.pc = "provider", !.req = request, !.story = request_head(request),
                            !.provider_calls = 1]

\* The document of a waiting request once its provider call came to outcome
\* o, assembled on the story `head`.
request_pdf(request, head, o) ==
    IF request.endpoint = "compare"
    THEN generate_comparison_pdf(head, PROPERTIES_DB[request.property_id_1],
                                 PROPERTIES_DB[request.property_id_2], o)
    ELSE generate_personalized_recommendation_pdf(head, PropertiesOf(request.property_ids),
                                                  CONTACTS_DB[request.contact_id], o)

request_summary(request, o) ==
    IF request.endpoint = "compare"
    THEN generate_comparison_summary(PROPERTIES_DB[request.property_id_1],
                                     PROPERTIES_DB[request.property_id_2], o)
    ELSE generate_personalized_recommendation(PropertiesOf(request.property_ids),
                                              CONTACTS_DB[request.contact_id], o)

request_filename(request) ==
    IF request.endpoint = "compare" THEN ComparisonFilename(request)
    ELSE RecommendationFilename(request)

\* The rest of a handler after its provider call, on the story `head`.
resume(worker, head, o) ==
    LET pdf == request_pdf(worker.req, head, o)
    IN  [worker EXCEPT !.pc = "done",
                       !.outcome = o,
                       !.summary = request_summary(worker.req, o),
                       !.story = IF pdf.raised THEN head ELSE pdf.story,
                       !.response = Response(pdf, request_filename(worker.req))]

ConcurrentInit ==
    /\ files = [properties |-> "ok", contacts |-> "ok"]
    /\ PROPERTIES_DB = PropertyRecords
    /\ CONTACTS_DB = ContactRecords
    /\ pc = "idle"
    /\ req = NoRequest
    /\ story = <<>>
    /\ provider_calls = 0
    /\ outcome = NoOutcome
    /\ summary = NoSummary
    /\ response = NoResponse
    /\ parser_input = NoParserInput
    /\ paragraphs = <<>>
    /\ workers = [w \in Workers |-> IdleWorker]

\* A request arrives and its handler runs in thread w.
worker_receives(w, request) ==
    /\ workers[w].pc = "idle"
    /\ workers' = [workers EXCEPT ![w] = handle(request)]
    /\ UNCHANGED <<PROPERTIES_DB, CONTACTS_DB, files, parser_input, paragraphs,
                   pc, req, story, provider_calls, outcome, summary, response>>

\* `story` a global of the module instead of a local of the handler: the
\* document is finished on the story of whichever request started last.
worker_provider_returns_shared_story(w, o) ==
    /\ workers[w].pc = "provider"
    /\ LET waiting == { v \in Workers : workers[v].pc = "provider" }
           last == CHOOSE v \in waiting : \A u \in waiting : u <= v
       IN  workers' = [workers EXCEPT ![w] = resume(workers[w], workers[last].story, o)]
    /\ UNCHANGED <<PROPERTIES_DB, CONTACTS_DB, files, parser_input, paragraphs,
                   pc, req, story, provider_calls, outcome, summary, response>>

\* The provider call of the request in thread w returns or raises, and its
\* handler runs to the end on its own story.
worker_provider_returns(w, o) ==
    /\ workers[w].pc = "provider"
    /\ workers' = [workers EXCEPT ![w] = resume(workers[w], workers[w].story, o)]
    /\ UNCHANGED <<PROPERTIES_DB, CONTACTS_DB, files, parser_input, paragraphs,
                   pc, req, story, provider_calls, outcome, summary, response>>

\* The response of thread w is sent; its locals are gone.
worker_done(w) ==
    /\ workers[w].pc = "done"
    /\ workers' = [workers EXCEPT ![w] = IdleWorker]
    /\ UNCHANGED <<PROPERTIES_DB, CONTACTS_DB, files, parser_input, paragraphs,
                   pc, req, story, provider_calls, outcome, summary, response>>

ConcurrentNext ==
    \/ \E w \in Workers, request \in ConcurrentRequests : worker_receives(w, request)
    \/ \E w \in Workers, o \in ProviderOutcomes : worker_provider_returns(w, o)
    \/ \E w \in Workers : worker_done(w)

ConcurrentSpec == ConcurrentInit /\ [][ConcurrentNext]_vars

\* ------------------------------------------------ independence (C18)

\* The response of a request served with no other request in flight, for
\* the stores as loaded and the provider outcome o.
ResponseAlone(request, o) ==
    IF request_check(request).status # 0 THEN request_check(request)
    ELSE IF request.endpoint = "quote"
    THEN Response(generate_quote_pdf(PropertyRecords[request.property_id],
                                     ContactRecords[request.contact_id]),
                  QuoteFilename(request))
    ELSE Response(request_pdf(request, request_head(request), o), request_filename(request))

\* C18: whatever the interleaving of the requests in flight, the response of
\* each request is the response it gets when served alone against the same
\* stores and the same provider outcome; a request still waiting for its
\* provider holds the story it started alone, and the stores are as loaded.
C18_RequestsIndependent ==
    /\ PROPERTIES_DB = PropertyRecords
    /\ CONTACTS_DB = ContactRecords
    /\ \A w \in DOMAIN workers :
          /\ workers[w].pc = "done" =>
                workers[w].response = ResponseAlone(workers[w].req, workers[w].outcome)
          /\ workers[w].pc = "provider" =>
                workers[w].story = request_head(workers[w].req)

\* C18 witness: two different requests are finished and not yet answered,
\* so they were in flight together; one got its narrative from the provider
\* and the other a failed provider call, and both have their documents.
C18_Witness ==
    /\ DOMAIN workers = Workers
    /\ workers[1].pc = "done" /\ workers[2].pc = "done"
    /\ workers[1].req.endpoint = "compare" /\ workers[2].req.endpoint = "recommend"
    /\ workers[1].outcome.kind = "content" /\ workers[2].outcome.kind = "error"
    /\ workers[1].response.status = 200 /\ workers[2].response.status = 200

\* ---------------------------- the guarded narrative section, step by step

\* Lines of a narrative the provider returns: blank, and one of each class.
NarrativeTokens ==
    { <<>>,
      <<"#", "#", "#", " ", "a">>,
      <<"*", "*", "b", "*", "*">>,
      <<"-", " ", "c">>,
      <<"a", " ", "*", "*", "b", "*", "*">> }

\* The documents assembled: comparisons (property 3 has no area, so its
\* fallback summary raises) and a recommendation.
NarrativeRequests ==
    { [NoRequest EXCEPT !.endpoint = "compare", !.property_id_1 = c[1], !.property_id_2 = c[2]] :
        c \in {<<1, 2>>, <<3, 1>>} }
    \cup { [NoRequest EXCEPT !.endpoint = "recommend", !.segs = <<<<"1">>, <<"2">>>>,
                             !.property_ids = <<"1", ",", "2">>, !.contact_id = 1] }

\* What the provider call of the document comes to.
IsNarrativeOutcome(o) ==
    \/ o \in ProviderOutcomes
    \/ \E n \in 1..MaxNarrativeLines : \E ls \in [1..n -> NarrativeTokens] :
          o = [kind |-> "content", content |-> Join(ls, "\n")]

RequestUnavailable(request) ==
    IF request.endpoint = "compare" THEN ComparisonUnavailable ELSE RecommendationUnavailable

\* generate_comparison_pdf / generate_personalized_recommendation_pdf have
\* appended everything up to the section header and reach the try.
NarrativeInit ==
    /\ files = [properties |-> "ok", contacts |-> "ok"]
    /\ PROPERTIES_DB = PropertyRecords
    /\ CONTACTS_DB = ContactRecords
    /\ pc = "generate"
    /\ req \in NarrativeRequests
    /\ story = request_head(req)
    /\ provider_calls = 1
    /\ IsNarrativeOutcome(outcome)
    /\ summary = NoSummary
    /\ response = NoResponse
    /\ parser_input = NoParserInput
    /\ paragraphs = <<>>
    /\ workers = NoWorkers

\* summary = generate_comparison_summary(p1, p2) (line 146; line 367 for the
\* recommendation): it returns a text or raises into the except clause.
narrative_generate ==
    /\ pc = "generate"
    /\ summary' = request_summary(req, outcome)
    /\ pc' = IF request_summary(req, outcome).raised THEN "except" ELSE "format"
    /\ UNCHANGED <<PROPERTIES_DB, CONTACTS_DB, files, parser_input, workers,
                   req, story, provider_calls, outcome, response, paragraphs>>

\* formatted_paragraphs = format_llm_text_for_pdf(summary) returns: every
\* Paragraph was constructed.
narrative_format_returns ==
    /\ pc = "format"
    /\ paragraphs' = format_llm_text_for_pdf(summary.text)
    /\ pc' = IF format_llm_text_for_pdf(summary.text) = <<>> THEN "footer" ELSE "append"
    /\ UNCHANGED <<PROPERTIES_DB, CONTACTS_DB, files, parser_input, workers,
                   req, story, provider_calls, outcome, summary, response>>

\* The paragraphs are appended to the story as they are constructed, instead
\* of to the formatter's own list: those before the failing one are in the
\* story when the except clause runs.
narrative_format_raises_streaming(k) ==
    /\ pc = "format"
    /\ k \in 1..Len(format_llm_text_for_pdf(summary.text))
    /\ paragraphs' = SubSeq(format_llm_text_for_pdf(summary.text), 1, k - 1)
    /\ story' = story \o WithSpacers(SubSeq(format_llm_text_for_pdf(summary.text), 1, k - 1))
    /\ pc' = "except"
    /\ UNCHANGED <<PROPERTIES_DB, CONTACTS_DB, files, parser_input, workers,
                   req, provider_calls, outcome, summary, response>>

\* format_llm_text_for_pdf raises: the constructor of its k-th Paragraph
\* rejects the text (ReportLab parses the markup there; which texts it
\* rejects is the library's matter, so any paragraph may be the one). The
\* paragraphs constructed before are in the formatter's local list, which is
\* lost; the story is as it was.
narrative_format_raises(k) ==
    /\ pc = "format"
    /\ k \in 1..Len(format_llm_text_for_pdf(summary.text))
    /\ paragraphs' = SubSeq(format_llm_text_for_pdf(summary.text), 1, k - 1)
    /\ pc' = "except"
    /\ UNCHANGED <<PROPERTIES_DB, CONTACTS_DB, files, parser_input, workers,
                   req, story, provider_calls, outcome, summary, response>>

\* Number of paragraphs the for loop has appended to the story.
Appended == (Len(story) - Len(request_head(req))) \div 2

\* One round of `for para in formatted_paragraphs`: story.append(para);
\* story.append(Spacer(1, 0.05 * inch)).
narrative_append ==
    /\ pc = "append"
    /\ Appended < Len(paragraphs)
    /\ story' = story \o <<paragraphs[Appended + 1], Spacer("0.05 inch")>>
    /\ pc' = IF Appended + 1 = Len(paragraphs) THEN "footer" ELSE "append"
    /\ UNCHANGED <<PROPERTIES_DB, CONTACTS_DB, files, parser_input, workers,
                   req, provider_calls, outcome, summary, response, paragraphs>>

\* except Exception: the static paragraph is appended.
narrative_except ==
    /\ pc = "except"
    /\ story' = story \o <<RequestUnavailable(req)>>
    /\ pc' = "footer"
    /\ UNCHANGED <<PROPERTIES_DB, CONTACTS_DB, files, parser_input, workers,
                   req, provider_calls, outcome, summary, response, paragraphs>>

\* The footer is appended and doc.build(story) renders the story.
narrative_footer ==
    /\ pc = "footer"
    /\ story' = story \o Footer
    /\ pc' = "built"
    /\ UNCHANGED <<PROPERTIES_DB, CONTACTS_DB, files, parser_input, workers,
                   req, provider_calls, outcome, summary, response, paragraphs>>

NarrativeNext ==
    \/ narrative_generate
    \/ narrative_format_returns
    \/ \E k \in 1..MaxNarrativeLines : narrative_format_raises(k)
    \/ narrative_append
    \/ narrative_except
    \/ narrative_footer

NarrativeSpec == NarrativeInit /\ [][NarrativeNext]_vars

\* ------------------------------------------------ all or nothing (C21)

\* The blocks of the story after the section header, the footer left out.
NarrativeBlocks ==
    SubSeq(story, Len(request_head(req)) + 1,
           IF pc = "built" THEN Len(story) - Len(Footer) ELSE Len(story))

\* The complete sequence of parsed blocks of the narrative text, each
\* followed by its spacer.
AllParsedBlocks == WithSpacers(format_llm_text_for_pdf(summary.text))

IsPrefix(s, t) == Len(s) <= Len(t) /\ SubSeq(t, 1, Len(s)) = s

\* C21: the narrative section of a comparison or recommendation document is
\* either the complete sequence of parsed blocks of the narrative text, each
\* followed by a spacer, or the static 'unavailable' paragraph alone,
\* whichever of the generator call, the parsing and the block construction
\* failed: the except clause is entered with nothing of the section in the
\* story, and while blocks are being appended no failure is pending.
C21_NarrativeAllOrNothing ==
    /\ SubSeq(story, 1, Len(request_head(req))) = request_head(req)
    /\ pc \in {"generate", "format", "except"} => NarrativeBlocks = <<>>
    /\ pc = "append" =>
          /\ ~summary.raised
          /\ IsPrefix(NarrativeBlocks, AllParsedBlocks)
          /\ Len(NarrativeBlocks) < Len(AllParsedBlocks)
    /\ pc \in {"footer", "built"} =>
          \/ ~summary.raised /\ NarrativeBlocks = AllParsedBlocks
          \/ NarrativeBlocks = <<RequestUnavailable(req)>>
    /\ pc = "built" => SubSeq(story, Len(story) - 1, Len(story)) = Footer

\* C21 witness: the construction of the third paragraph failed after two
\* were constructed, and the finished story holds the static paragraph alone
\* between the section header and the footer.
C21_Witness ==
    /\ pc = "built"
    /\ ~summary.raised
    /\ Len(paragraphs) = 2
    /\ Len(format_llm_text_for_pdf(summary.text)) = 3
    /\ NarrativeBlocks = <<RequestUnavailable(req)>>
    /\ story = request_head(req) \o <<RequestUnavailable(req)>> \o Footer

====
